---- MODULE Spec2Model ----
(***************************************************************************)
(* Model of the ESP32 boot controller (picoboot/espboot.py), its serial    *)
(* port presence monitor (picoboot/espbootmonitor.py) and the Platform     *)
(* enumeration (picoboot/platform.py).                                     *)
(*                                                                         *)
(* Text is modelled as a sequence of one-character strings, so that        *)
(* str.lower() and the "in" substring test are computed, not assumed.      *)
(* Python's None is the string "None" in string-valued fields.             *)
(***************************************************************************)
EXTENDS Integers, Sequences, FiniteSets, TLC

VARIABLES
    comports,    \* serial ports the OS enumerates now, in enumeration order
    device,      \* the EspBoot instance: exists, port, esp, stack, monitor
    held,        \* transport contexts entered on the ExitStack, not yet exited
    monitor,     \* the EspBootMonitor instance: port, running, device_present
    pc,          \* position of the caller thread and of the monitor thread
    present,     \* the monitor thread's local "present" of the current poll
    call,        \* locals of the call the caller thread is executing
    result,      \* how the caller's last call ended
    attempts,    \* ports detect_chip was called on during the last open()
    notes,       \* notifications delivered to the observer, oldest first
    poll,        \* the monitor's current iteration: recorded state, notifications
    openFiles,   \* file handles opened by write_flash_files and not closed
    chipName,    \* CHIP_NAME of the connected esptool loader
    macRead,     \* what read_mac() of the loader does when called
    flashInfo,   \* the flash size the toolkit and the loader report
    afterStop    \* enumerations and notifications since stop() was called

vars == <<comports, device, held, monitor, pc, present, call, result,
          attempts, notes, poll, openFiles, chipName, macRead, flashInfo,
          afterStop>>

None == "None"

----------------------------------------------------------------------------
(* Text helpers: str.lower(), the substring test and " ".join(filter(None)) *)

UpperChars == <<"A","B","C","D","E","F","G","H","I","J","K","L","M",
                "N","O","P","Q","R","S","T","U","V","W","X","Y","Z">>

LowerChars == <<"a","b","c","d","e","f","g","h","i","j","k","l","m",
                "n","o","p","q","r","s","t","u","v","w","x","y","z">>

LowerChar(c) ==
    IF \E i \in 1..Len(UpperChars) : UpperChars[i] = c
    THEN LowerChars[CHOOSE i \in 1..Len(UpperChars) : UpperChars[i] = c]
    ELSE c

UpperChar(c) ==
    IF \E i \in 1..Len(LowerChars) : LowerChars[i] = c
    THEN UpperChars[CHOOSE i \in 1..Len(LowerChars) : LowerChars[i] = c]
    ELSE c

Lower(s) == [i \in 1..Len(s) |-> LowerChar(s[i])]

Upper(s) == [i \in 1..Len(s) |-> UpperChar(s[i])]

Contains(sub, s) ==
    \E i \in 1..(Len(s) - Len(sub) + 1) : SubSeq(s, i, i + Len(sub) - 1) = sub

RECURSIVE JoinSpace(_)
JoinSpace(parts) ==
    IF parts = <<>> THEN <<>>
    ELSE IF Len(parts) = 1 THEN parts[1]
    ELSE parts[1] \o <<" ">> \o JoinSpace(Tail(parts))

FilterNone(parts) == SelectSeq(parts, LAMBDA x : x /= <<>>)

----------------------------------------------------------------------------
(* picoboot/platform.py: the members of Platform and their integer values   *)

Platform ==
    [RP2040  |-> 95565,
     RP2350  |-> 161101,
     ESP32S3 |-> 226637,
     ESP32S2 |-> 292173,
     ESP32C3 |-> 357709,
     UNKNOWN |-> 0]

\* Evaluating the expression Platform.<member>: the member, or AttributeError
\* when the enumeration has no member of that name.
PlatformAttr(member) ==
    IF member \in DOMAIN Platform
    THEN [kind |-> "ok", err |-> None, member |-> member]
    ELSE [kind |-> "raise", err |-> "AttributeError", member |-> None]

\* the bare "esp32" test made before the tests for the variants
_determine_platform_plainfirst(name) ==
    LET n == Lower(name) IN
    IF Contains(<<"e","s","p","3","2">>, n) THEN PlatformAttr("ESP32")
    ELSE IF Contains(<<"e","s","p","3","2","-","s","3">>, n) THEN PlatformAttr("ESP32S3")
    ELSE IF Contains(<<"e","s","p","3","2","-","s","2">>, n) THEN PlatformAttr("ESP32S2")
    ELSE PlatformAttr("UNKNOWN")

\* EspBoot._determine_platform applied to the loader's CHIP_NAME
_determine_platform(name) ==
    LET n == Lower(name) IN
    IF Contains(<<"e","s","p","3","2","-","s","3">>, n) THEN PlatformAttr("ESP32S3")
    ELSE IF Contains(<<"e","s","p","3","2","-","s","2">>, n) THEN PlatformAttr("ESP32S2")
    ELSE IF Contains(<<"e","s","p","3","2","c","3">>, n) THEN PlatformAttr("ESP32C3")
    ELSE IF Contains(<<"e","s","p","3","2">>, n) THEN PlatformAttr("ESP32")
    ELSE PlatformAttr("UNKNOWN")

----------------------------------------------------------------------------
(* The serial ports of the host, as serial.tools.list_ports reports them.   *)
(* vid -1 stands for a port without a USB vendor id (vid is None); an empty *)
(* text stands for an absent or empty attribute.                            *)

Ports == {"A", "B", "C", "D"}

PortOrder == <<"A", "B", "C", "D">>

PortInfo ==
    [A |-> [vid |-> 4660,
            description  |-> <<"G","e","n","e","r","i","c"," ","U","A","R","T">>,
            manufacturer |-> <<>>,
            product      |-> <<>>],
     B |-> [vid |-> 12346,
            description  |-> <<>>,
            manufacturer |-> <<>>,
            product      |-> <<>>],
     C |-> [vid |-> -1,
            description  |-> <<"U","S","B"," ","U","A","R","T">>,
            manufacturer |-> <<"S","i","l","i","c","o","n">>,
            product      |-> <<"L","a","b","s"," ","C","P","2","1","0","2">>],
     D |-> [vid |-> 7531,
            description  |-> <<"t","t","y","S","0">>,
            manufacturer |-> <<>>,
            product      |-> <<"D","o","c","k">>]]

ESP_SERIAL_VIDS == {12346, 4292, 6790, 1027, 1659}

ESP_SERIAL_KEYWORDS ==
    << <<"e","s","p">>,
       <<"c","p","2","1","0">>,
       <<"c","h","3","4","0">>,
       <<"c","h","9","1","0">>,
       <<"f","t","d","i">>,
       <<"s","i","l","i","c","o","n"," ","l","a","b","s">> >>

\* The enumeration of a set of plugged ports: list_ports.comports()
Enumerate(S) == SelectSeq(PortOrder, LAMBDA p : p \in S)

InSeq(x, s) == \E i \in 1..Len(s) : s[i] = x

\* lines 64-70 of _list_serial_ports: is this port put in "preferred"?
IsPreferred(p) ==
    LET info == PortInfo[p]
        desc == Lower(JoinSpace(FilterNone(
                    <<info.description, info.manufacturer, info.product>>)))
    IN  \/ info.vid \in ESP_SERIAL_VIDS
        \/ \E k \in 1..Len(ESP_SERIAL_KEYWORDS) : Contains(ESP_SERIAL_KEYWORDS[k], desc)

\* the candidates left in enumeration order
_list_serial_ports_unordered(ports) == ports

\* EspBoot._list_serial_ports: preferred + others, each in enumeration order
_list_serial_ports(ports) ==
    SelectSeq(ports, IsPreferred) \o SelectSeq(ports, LAMBDA p : ~IsPreferred(p))

\* EspBoot._is_port_present
_is_port_present(port, ports) == InSeq(port, _list_serial_ports(ports))

----------------------------------------------------------------------------
(* Call frames and results of the caller thread                             *)

\* An optional value: <<>> is None, <<x>> is the value x; an attribute that
\* was never assigned is absent, and is read as None by getattr(.., None)
NoValue == <<>>

Some(x) == <<x>>

IdleCall ==
    [op |-> None, port |-> None, esp |-> None, run_stub |-> FALSE,
     candidates |-> <<>>, idx |-> 0, exc |-> None,
     segments |-> <<>>, opened |-> <<>>, again |-> FALSE]

\* kind: "none" while a call runs or before any call, "ok" for a return,
\* "raise" for an exception; err is the class raised, cause the exception it
\* is chained from, port the port its message names, toolkit whether the call
\* reached the esptool toolkit, closed whether the handle was None at its check,
\* stale whether the handle was None when the body used it, value the Platform
\* member returned, text the string returned, size the byte count returned,
\* descriptor the size descriptor get_flash_size normalized, platform the "platform" entry of get_chip_info (-1: none),
\* files the number of files write_flash_files had opened, again whether a
\* close() directly followed a close() of the caller that had returned.
NoResult ==
    [op |-> None, kind |-> "none", err |-> None, msg |-> None, port |-> None,
     cause |-> None, toolkit |-> FALSE, closed |-> FALSE, stale |-> FALSE,
     value |-> None, text |-> <<>>, size |-> NoValue,
     descriptor |-> [kind |-> "none", text |-> <<>>, int |-> 0], platform |-> -1,
     files |-> 0, again |-> FALSE]

\* serial_cache is the attribute _cached_serial_number ("set" tells whether it
\* was ever assigned), flash_size the attribute _flash_size
NoDevice ==
    [exists |-> FALSE, port |-> None, esp |-> None, stack |-> None,
     monitor |-> "absent", serial_cache |-> [set |-> FALSE, bytes |-> <<>>],
     flash_size |-> NoValue]

NoMonitor ==
    [exists |-> FALSE, port |-> None, running |-> FALSE,
     device_present |-> FALSE, observer |-> None]

----------------------------------------------------------------------------
(* EspBoot.serial_number_str, lines 197-222, and set_serial_number_str,     *)
(* lines 194-195. A bytes object is a sequence of integers 0..255. What     *)
(* read_mac() does is a record: kind "missing" (the loader has no read_mac),*)
(* "raise", "none" (it returns None), "bytes", "tuple" (a tuple of ints),   *)
(* "int" or "str".                                                          *)

HexDigits == <<"0","1","2","3","4","5","6","7","8","9","A","B","C","D","E","F">>

\* f"{b:02X}": two hexadecimal digits in upper case
Hex2(b) == <<HexDigits[(b \div 16) + 1], HexDigits[(b % 16) + 1]>>

\* seq[::-1]
Reverse(seq) == [i \in 1..Len(seq) |-> seq[Len(seq) + 1 - i]]

\* b"\x00" * n, which is empty when n is zero or negative
Zeros(n) == [i \in 1..n |-> 0]

RECURSIVE JoinHex(_)
\* line 222: "".join(f"{b:02X}" for b in ...)
JoinHex(bytes) ==
    IF bytes = <<>> THEN <<>> ELSE Hex2(Head(bytes)) \o JoinHex(Tail(bytes))

RECURSIVE ShiftBytes(_, _)
\* n >> (8 * k)
ShiftBytes(n, k) == IF k = 0 THEN n ELSE ShiftBytes(n \div 256, k - 1)

\* line 212: mac.to_bytes(6, "big"); OverflowError for a negative integer and
\* for one of more than 48 bits
to_bytes6(n) ==
    IF n < 0 \/ ShiftBytes(n, 6) > 0
    THEN [kind |-> "raise", err |-> "OverflowError", bytes |-> <<>>]
    ELSE [kind |-> "ok", err |-> None,
          bytes |-> [i \in 1..6 |-> ShiftBytes(n, 6 - i) % 256]]

\* line 216: bytes(mac) for a value that is no bytes object
ToBytes(mac) ==
    IF mac.kind = "tuple"
    THEN IF \A i \in 1..Len(mac.bytes) : mac.bytes[i] \in 0..255
         THEN [kind |-> "ok", err |-> None, bytes |-> mac.bytes]
         ELSE [kind |-> "raise", err |-> "ValueError", bytes |-> <<>>]
    ELSE [kind |-> "raise", err |-> "TypeError", bytes |-> <<>>]

\* lines 200-210: the live read, else the cached value, else six zero bytes
MacSource(esp, read, cache) ==
    IF esp /= None /\ read.kind \notin {"missing", "raise", "none"}
    THEN read
    ELSE [kind |-> "bytes", int |-> 0,
          bytes |-> IF cache.set THEN cache.bytes ELSE Zeros(6)]

\* padding on the right instead of the left
PadTo8_right(bytes) == bytes \o Zeros(8 - Len(bytes))

\* line 217: b"\x00" * (8 - len(mac_bytes)) + mac_bytes
PadTo8(bytes) == Zeros(8 - Len(bytes)) \o bytes

\* lines 211-222 on the value mac
FormatMac(mac) ==
    LET conv == IF mac.kind = "int" THEN to_bytes6(mac.int)
                ELSE IF mac.kind = "bytes"
                THEN [kind |-> "ok", err |-> None, bytes |-> mac.bytes]
                ELSE ToBytes(mac)
        mac_bytes == PadTo8(conv.bytes)
    IN  IF conv.kind = "raise"
        THEN [kind |-> "raise", err |-> conv.err, msg |-> None, text |-> <<>>]
        ELSE IF Len(mac_bytes) /= 8
        THEN [kind |-> "raise", err |-> "EspBootError",
              msg |-> "Invalid MAC address length", text |-> <<>>]
        ELSE [kind |-> "ok", err |-> None, msg |-> None,
              text |-> JoinHex(Reverse(mac_bytes))]

\* the property past its "is None" check
serial_number_str(esp, read, cache) == FormatMac(MacSource(esp, read, cache))

HexValue(c) ==
    IF \E i \in 1..16 : HexDigits[i] = UpperChar(c)
    THEN (CHOOSE i \in 1..16 : HexDigits[i] = UpperChar(c)) - 1
    ELSE -1

RECURSIVE FromHex(_)
\* bytes.fromhex: pairs of hexadecimal digits, spaces between the pairs are
\* skipped; ValueError for anything else
FromHex(text) ==
    IF text = <<>> THEN [ok |-> TRUE, bytes |-> <<>>]
    ELSE IF Head(text) = " " THEN FromHex(Tail(text))
    ELSE IF Len(text) < 2 \/ HexValue(text[1]) < 0 \/ HexValue(text[2]) < 0
    THEN [ok |-> FALSE, bytes |-> <<>>]
    ELSE LET rest == FromHex(SubSeq(text, 3, Len(text)))
         IN  [ok |-> rest.ok,
              bytes |-> <<16 * HexValue(text[1]) + HexValue(text[2])>> \o rest.bytes]

\* serial[:12]
First12(text) == SubSeq(text, 1, IF Len(text) < 12 THEN Len(text) ELSE 12)

\* lines 194-195: the first twelve characters are parsed and stored reversed;
\* the method tests nothing else, and a ValueError of the parse gets out
set_serial_number_str(serial) ==
    /\ pc.caller = "idle"
    /\ device.exists
    /\ LET parsed == FromHex(First12(serial))
       IN  IF parsed.ok
           THEN /\ device' = [device EXCEPT !.serial_cache =
                                 [set |-> TRUE, bytes |-> Reverse(parsed.bytes)]]
                /\ result' = [NoResult EXCEPT !.op = "set_serial_number_str",
                                              !.kind = "ok"]
           ELSE /\ result' = [NoResult EXCEPT !.op = "set_serial_number_str",
                                              !.kind = "raise",
                                              !.err = "ValueError"]
                /\ UNCHANGED device
    /\ attempts' = <<>>
    /\ UNCHANGED <<comports, held, monitor, pc, present, call, notes, poll,
                   openFiles, chipName, macRead, flashInfo, afterStop>>

----------------------------------------------------------------------------
(* EspBoot._flash_size_to_bytes, lines 286-307, and get_flash_size, lines   *)
(* 247-277. A size descriptor is a record: kind "none" (None), "str" with   *)
(* its text, "int" with its value, "float" with its whole part, "object"    *)
(* (a value int() rejects), and "absent" for an attribute the loader lacks. *)

NoDescriptor == [kind |-> "none", text |-> <<>>, int |-> 0]

Digits == <<"0","1","2","3","4","5","6","7","8","9">>

DigitValue(c) ==
    IF \E i \in 1..10 : Digits[i] = c
    THEN (CHOOSE i \in 1..10 : Digits[i] = c) - 1
    ELSE -1

RECURSIVE LStrip(_)
LStrip(s) ==
    IF s /= <<>> /\ Head(s) \in {" ", "\t", "\n"} THEN LStrip(Tail(s)) ELSE s

\* str.strip()
Strip(s) == Reverse(LStrip(Reverse(LStrip(s))))

\* str.endswith(suffix)
EndsWith(s, suffix) ==
    /\ Len(s) >= Len(suffix)
    /\ SubSeq(s, Len(s) - Len(suffix) + 1, Len(s)) = suffix

RECURSIVE DigitsValue(_, _)
\* the value of a digit string, underscores skipped, after the digits acc
DigitsValue(s, acc) ==
    IF s = <<>> THEN acc
    ELSE IF Head(s) = "_" THEN DigitsValue(Tail(s), acc)
    ELSE DigitsValue(Tail(s), 10 * acc + DigitValue(Head(s)))

\* int(text): surrounding whitespace, an optional sign, decimal digits with
\* single underscores between them; anything else raises ValueError
ParseInt(text) ==
    LET t == Strip(text)
        signed == t /= <<>> /\ t[1] \in {"+", "-"}
        body == IF signed THEN Tail(t) ELSE t
        wellformed ==
            /\ body /= <<>>
            /\ DigitValue(body[1]) >= 0
            /\ DigitValue(body[Len(body)]) >= 0
            /\ \A i \in 1..Len(body) : body[i] = "_" \/ DigitValue(body[i]) >= 0
            /\ \A i \in 1..(Len(body) - 1) : ~(body[i] = "_" /\ body[i + 1] = "_")
    IN  IF ~wellformed THEN [ok |-> FALSE, value |-> 0]
        ELSE [ok |-> TRUE,
              value |-> IF signed /\ t[1] = "-" THEN 0 - DigitsValue(body, 0)
                        ELSE DigitsValue(body, 0)]

\* int(s[:-cut]) * factor inside the try of lines 295-304
Scaled(s, cut, factor) ==
    LET n == ParseInt(SubSeq(s, 1, Len(s) - cut))
    IN  IF n.ok THEN Some(n.value * factor) ELSE NoValue

\* the suffix "B" tested before "MB" and "KB"
_flash_size_to_bytes_bfirst(size) ==
    IF size.kind = "none" THEN NoValue
    ELSE IF size.kind = "int" THEN Some(size.int)
    ELSE IF size.kind = "str"
    THEN LET s == Upper(Strip(size.text))
         IN  IF EndsWith(s, <<"B">>) THEN Scaled(s, 1, 1)
             ELSE IF EndsWith(s, <<"M","B">>) THEN Scaled(s, 2, 1024 * 1024)
             ELSE IF EndsWith(s, <<"K","B">>) THEN Scaled(s, 2, 1024)
             ELSE Scaled(s, 0, 1)
    ELSE IF size.kind = "float" THEN Some(size.int)
    ELSE NoValue

\* lines 286-307
_flash_size_to_bytes(size) ==
    IF size.kind = "none" THEN NoValue
    ELSE IF size.kind = "int" THEN Some(size.int)
    ELSE IF size.kind = "str"
    THEN LET s == Upper(Strip(size.text))
         IN  IF EndsWith(s, <<"M","B">>) THEN Scaled(s, 2, 1024 * 1024)
             ELSE IF EndsWith(s, <<"K","B">>) THEN Scaled(s, 2, 1024)
             ELSE IF EndsWith(s, <<"B">>) THEN Scaled(s, 1, 1)
             ELSE Scaled(s, 0, 1)
    ELSE IF size.kind = "float" THEN Some(size.int)
    ELSE NoValue

\* _, _, size = _get_flash_info(esp) inside its try: the descriptor the
\* toolkit reports, or None when the import or the call raises (as the call
\* does on a handle that is None)
QueryFlashInfo(esp, info, answers) ==
    IF esp /= None /\ answers THEN info ELSE NoDescriptor

\* a cache test that never finds the cached size
CacheHit_never(cache) == FALSE

\* line 250: getattr(self, "_flash_size", None) is not None
CacheHit(cache) == cache /= NoValue

UnableToDetermine == "Unable to determine flash size programmatically"

\* lines 250-277, past the "is None" check: how the call ends (kind, err,
\* msg, size), whether it queried the toolkit, the descriptor it normalized
\* and the cache it leaves
get_flash_size(esp, cache, info, answers) ==
    LET queried == QueryFlashInfo(esp, info.info, answers)
        size == IF queried.kind /= "none" THEN queried
                ELSE IF esp /= None /\ info.attr.kind /= "absent" THEN info.attr
                ELSE NoDescriptor
        bytes == _flash_size_to_bytes(size)
    IN  IF CacheHit(cache)
        THEN [kind |-> "ok", err |-> None, msg |-> None, size |-> cache,
              toolkit |-> FALSE, descriptor |-> NoDescriptor, cache |-> cache]
        ELSE IF bytes = NoValue
        THEN [kind |-> "raise", err |-> "EspBootError",
              msg |-> UnableToDetermine, size |-> NoValue, toolkit |-> TRUE,
              descriptor |-> size, cache |-> cache]
        ELSE [kind |-> "ok", err |-> None, msg |-> None, size |-> bytes,
              toolkit |-> TRUE, descriptor |-> size, cache |-> bytes]

----------------------------------------------------------------------------
(* The environment: serial ports are plugged and unplugged at any time      *)

Plug(p) ==
    /\ ~InSeq(p, comports)
    /\ comports' = Enumerate({comports[i] : i \in 1..Len(comports)} \cup {p})
    /\ UNCHANGED <<device, held, monitor, pc, present, call, result,
                   attempts, notes, poll, openFiles, chipName, macRead, flashInfo, afterStop>>

Unplug(p) ==
    /\ InSeq(p, comports)
    /\ comports' = SelectSeq(comports, LAMBDA q : q /= p)
    /\ UNCHANGED <<device, held, monitor, pc, present, call, result,
                   attempts, notes, poll, openFiles, chipName, macRead, flashInfo, afterStop>>

----------------------------------------------------------------------------
(* EspBoot.open, lines 98-141, with _auto_detect_port, lines 76-88          *)

\* line 107: is the port argument the auto-detect sentinel?
IsAuto(port) == port = None \/ port = "auto"

\* open(port, run_stub_flasher) is entered: stack = ExitStack()
OpenBegin(port, stub) ==
    /\ pc.caller = "idle"
    /\ ~device.exists
    /\ call' = [IdleCall EXCEPT !.op = "open", !.port = port, !.run_stub = stub]
    /\ pc' = [pc EXCEPT !.caller = IF IsAuto(port) THEN "auto_list" ELSE "detect"]
    /\ result' = NoResult
    /\ attempts' = <<>>
    /\ UNCHANGED <<comports, device, held, monitor, present, notes, poll,
                   openFiles, chipName, macRead, flashInfo, afterStop>>

\* lines 78-80: the candidates are listed; none at all raises not-found
AutoList ==
    /\ pc.caller = "auto_list"
    /\ LET ports == _list_serial_ports(comports) IN
       IF ports = <<>>
       THEN /\ call' = [call EXCEPT !.exc = "EspBootNotFoundError"]
            /\ pc' = [pc EXCEPT !.caller = "open_except"]
       ELSE /\ call' = [call EXCEPT !.candidates = ports, !.idx = 1]
            /\ pc' = [pc EXCEPT !.caller = "auto_try"]
    /\ UNCHANGED <<comports, device, held, monitor, present, result, attempts,
                   notes, poll, openFiles, chipName, macRead, flashInfo, afterStop>>

\* lines 81-88: detect_chip on the next candidate; it connects or it fails,
\* as the toolkit decides. After the last failure not-found is raised.
AutoTry ==
    /\ pc.caller = "auto_try"
    /\ LET port == call.candidates[call.idx] IN
       /\ attempts' = Append(attempts, port)
       /\ \/ /\ held' = held \cup {port}
             /\ call' = [call EXCEPT !.port = port, !.esp = "ESPLoader"]
             /\ pc' = [pc EXCEPT !.caller = "run_stub"]
          \/ /\ held' = held
             /\ IF call.idx < Len(call.candidates)
                THEN /\ call' = [call EXCEPT !.idx = call.idx + 1]
                     /\ pc' = pc
                ELSE /\ call' = [call EXCEPT !.exc = "EspBootNotFoundError"]
                     /\ pc' = [pc EXCEPT !.caller = "open_except"]
    /\ UNCHANGED <<comports, device, monitor, present, result, notes, poll,
                   openFiles, chipName, macRead, flashInfo, afterStop>>

\* line 110: detect_chip on the explicit port
Detect ==
    /\ pc.caller = "detect"
    /\ attempts' = Append(attempts, call.port)
    /\ \/ /\ held' = held \cup {call.port}
          /\ call' = [call EXCEPT !.esp = "ESPLoader"]
          /\ pc' = [pc EXCEPT !.caller = "run_stub"]
       \/ /\ held' = held
          /\ call' = [call EXCEPT !.exc = "detect_chip"]
          /\ pc' = [pc EXCEPT !.caller = "open_except"]
    /\ UNCHANGED <<comports, device, monitor, present, result, notes, poll,
                   openFiles, chipName, macRead, flashInfo, afterStop>>

\* run_stub returns the loader that talks to the stub; the model keeps one
\* value for every live loader object
run_stub(esp) == esp

\* lines 111-112: the stub flasher is loaded when asked for
RunStub ==
    /\ pc.caller = "run_stub"
    /\ IF call.run_stub
       THEN \/ /\ call' = [call EXCEPT !.esp = run_stub(call.esp)]
               /\ pc' = [pc EXCEPT !.caller = "attach"]
            \/ /\ call' = [call EXCEPT !.exc = "run_stub"]
               /\ pc' = [pc EXCEPT !.caller = "open_except"]
       ELSE /\ call' = call
            /\ pc' = [pc EXCEPT !.caller = "attach"]
    /\ UNCHANGED <<comports, device, held, monitor, present, result, attempts,
                   notes, poll, openFiles, chipName, macRead, flashInfo, afterStop>>

\* line 113: attach_flash
AttachFlash ==
    /\ pc.caller = "attach"
    /\ \/ /\ call' = call
          /\ pc' = [pc EXCEPT !.caller = "open_finish"]
       \/ /\ call' = [call EXCEPT !.exc = "attach_flash"]
          /\ pc' = [pc EXCEPT !.caller = "open_except"]
    /\ UNCHANGED <<comports, device, held, monitor, present, result, attempts,
                   notes, poll, openFiles, chipName, macRead, flashInfo, afterStop>>

\* an except clause that forgets stack.close()
AfterStackClose_leak(contexts) == contexts

\* What stack.close() at line 115 leaves of the entered contexts
AfterStackClose(contexts) == {}

\* lines 114-116: stack.close(), then the error is raised from the cause
OpenExcept ==
    /\ pc.caller = "open_except"
    /\ held' = AfterStackClose(held)
    /\ result' = [NoResult EXCEPT !.op = "open", !.kind = "raise",
                                  !.err = "EspBootError",
                                  !.msg = "Failed to open ESP32 on port",
                                  !.port = call.port, !.cause = call.exc,
                                  !.toolkit = attempts /= <<>>]
    /\ call' = IdleCall
    /\ pc' = [pc EXCEPT !.caller = "idle"]
    /\ UNCHANGED <<comports, device, monitor, present, attempts, notes, poll,
                   openFiles, chipName, macRead, flashInfo, afterStop>>

\* EspBootMonitor.__init__ and start(), lines 43-57: the state of a monitor
\* just constructed on a port; its thread is started
NewMonitor(port, observer) ==
    [exists |-> TRUE, port |-> port, running |-> TRUE,
     device_present |-> FALSE, observer |-> observer]

\* lines 117-141: the instance is built, the flash size is probed (lines
\* 118-125: the toolkit answers or raises, a raise leaves None), the observer
\* and the monitor are attached.
OpenFinish ==
    /\ pc.caller = "open_finish"
    /\ \E answers \in BOOLEAN :
         device' = [NoDevice EXCEPT
                      !.exists = TRUE, !.port = call.port,
                      !.esp = call.esp, !.stack = "ExitStack",
                      !.monitor = "EspBootMonitor",
                      !.flash_size = _flash_size_to_bytes(
                          QueryFlashInfo(call.esp, flashInfo.info, answers))]
    /\ monitor' = NewMonitor(call.port, "EspBootObserver")
    /\ pc' = [caller |-> "idle", monitor |-> "while"]
    /\ result' = [NoResult EXCEPT !.op = "open", !.kind = "ok",
                                  !.port = call.port, !.toolkit = TRUE]
    /\ call' = IdleCall
    /\ UNCHANGED <<comports, held, present, attempts, notes, poll,
                   openFiles, chipName, macRead, flashInfo, afterStop>>

\* EspBoot(port, None, None): an instance built directly, never opened
Construct(port) ==
    /\ pc.caller = "idle"
    /\ ~device.exists
    /\ device' = [NoDevice EXCEPT !.exists = TRUE, !.port = port]
    /\ result' = NoResult
    /\ UNCHANGED <<comports, held, monitor, pc, present, call, attempts,
                   notes, poll, openFiles, chipName, macRead, flashInfo, afterStop>>

----------------------------------------------------------------------------
(* EspBoot.close, lines 143-152, one step per line. It is run by the caller *)
(* thread and, from EspBootObserver.update, by the monitor thread.          *)

\* close() without its "is not None" test
CloseGuard_unguarded(stack) == TRUE

\* line 144: the condition under which close() does anything
CloseGuard(stack) == stack /= None

\* close() returns in thread t
CloseReturn(t) ==
    IF t = "caller"
    THEN /\ pc' = [pc EXCEPT !.caller = "idle"]
         /\ result' = [NoResult EXCEPT !.op = "close", !.kind = "ok",
                                       !.again = call.again]
         /\ call' = IdleCall
    ELSE /\ pc' = [pc EXCEPT !.monitor = "sleep"]
         /\ UNCHANGED <<result, call>>

\* close() raises AttributeError in thread t: the caller gets the exception,
\* the monitor thread ends with it ("raised")
CloseRaise(t) ==
    IF t = "caller"
    THEN /\ pc' = [pc EXCEPT !.caller = "idle"]
         /\ result' = [NoResult EXCEPT !.op = "close", !.kind = "raise",
                                       !.err = "AttributeError",
                                       !.again = call.again]
         /\ call' = IdleCall
    ELSE /\ pc' = [pc EXCEPT !.monitor = "raised"]
         /\ UNCHANGED <<result, call>>

CloseCall ==
    /\ pc.caller = "idle"
    /\ device.exists
    /\ pc' = [pc EXCEPT !.caller = "c144"]
    /\ call' = [IdleCall EXCEPT !.op = "close",
                                !.again = (result.op = "close" /\ result.kind = "ok")]
    /\ result' = NoResult
    /\ attempts' = <<>>
    /\ UNCHANGED <<comports, device, held, monitor, present, notes, poll,
                   openFiles, chipName, macRead, flashInfo, afterStop>>

Close144(t) ==
    /\ pc[t] = "c144"
    /\ IF CloseGuard(device.stack)
       THEN /\ pc' = [pc EXCEPT ![t] = "c145"]
            /\ UNCHANGED <<result, call>>
       ELSE CloseReturn(t)
    /\ UNCHANGED <<comports, device, held, monitor, present, attempts, notes,
                   poll, openFiles, chipName, macRead, flashInfo, afterStop>>

Close145(t) ==
    /\ pc[t] = "c145"
    /\ pc' = [pc EXCEPT ![t] = IF device.monitor \notin {"absent", None}
                               THEN "c146" ELSE "c147"]
    /\ UNCHANGED <<comports, device, held, monitor, present, call, result,
                   attempts, notes, poll, openFiles, chipName, macRead, flashInfo, afterStop>>

\* line 146 without the call of stop()
Close146_nostop(t) ==
    /\ pc[t] = "c146"
    /\ pc' = [pc EXCEPT ![t] = "c147"]
    /\ UNCHANGED <<comports, device, held, monitor, present, call, result,
                   attempts, notes, poll, openFiles, chipName, macRead,
                   flashInfo, afterStop>>

\* line 146: self.__monitor.stop(); EspBootMonitor.stop, lines 59-60
Close146(t) ==
    /\ pc[t] = "c146"
    /\ IF device.monitor = None
       THEN /\ CloseRaise(t)
            /\ UNCHANGED monitor
       ELSE /\ monitor' = [monitor EXCEPT !.running = FALSE]
            /\ pc' = [pc EXCEPT ![t] = "c147"]
            /\ UNCHANGED <<result, call>>
    /\ UNCHANGED <<comports, device, held, present, attempts, notes, poll,
                   openFiles, chipName, macRead, flashInfo, afterStop>>

\* line 147: self._stack.close() exits every context entered on the stack
Close147(t) ==
    /\ pc[t] = "c147"
    /\ IF device.stack = None
       THEN /\ CloseRaise(t)
            /\ UNCHANGED held
       ELSE /\ held' = {}
            /\ pc' = [pc EXCEPT ![t] = "c148"]
            /\ UNCHANGED <<result, call>>
    /\ UNCHANGED <<comports, device, monitor, present, attempts, notes, poll,
                   openFiles, chipName, macRead, flashInfo, afterStop>>

Close148(t) ==
    /\ pc[t] = "c148"
    /\ device' = IF device.monitor /= "absent"
                 THEN [device EXCEPT !.monitor = None] ELSE device
    /\ pc' = [pc EXCEPT ![t] = "c150"]
    /\ UNCHANGED <<comports, held, monitor, present, call, result, attempts,
                   notes, poll, openFiles, chipName, macRead, flashInfo, afterStop>>

Close150(t) ==
    /\ pc[t] = "c150"
    /\ device' = [device EXCEPT !.stack = None]
    /\ pc' = [pc EXCEPT ![t] = "c151"]
    /\ UNCHANGED <<comports, held, monitor, present, call, result, attempts,
                   notes, poll, openFiles, chipName, macRead, flashInfo, afterStop>>

Close151(t) ==
    /\ pc[t] = "c151"
    /\ device' = [device EXCEPT !.esp = None]
    /\ CloseReturn(t)
    /\ UNCHANGED <<comports, held, monitor, present, attempts, notes, poll,
                   openFiles, chipName, macRead, flashInfo, afterStop>>

CloseStep(t) ==
    \/ Close144(t) \/ Close145(t) \/ Close146(t) \/ Close147(t)
    \/ Close148(t) \/ Close150(t) \/ Close151(t)

----------------------------------------------------------------------------
(* The operations guarded by "if self._esp is None": chip_name (160-164),   *)
(* chip_id (166-176), platform (190-192, through chip_name), serial_number_ *)
(* str (197-222), get_chip_info (224-245), get_flash_size (247-277),        *)
(* write_flash (330-333), reset (335-341), reboot (343-349). The check is   *)
(* one step, the body that uses the handle another.                         *)

Ops == {"chip_name", "chip_id", "platform", "serial_number_str",
        "get_chip_info", "get_flash_size", "write_flash", "reset", "reboot"}

\* The exception raised when the handle is None at the check
NotConnectedError == "EspBootError"

\* The result of a call that found self._esp to be None at its check
NotConnected(op) ==
    [NoResult EXCEPT !.op = op, !.kind = "raise", !.err = NotConnectedError,
                     !.msg = "Device not connected", !.closed = TRUE]

\* line 164: getattr(self._esp, "CHIP_NAME", "unknown")
chip_name(esp) ==
    IF esp = None THEN <<"u","n","k","n","o","w","n">> ELSE chipName

\* a body that tests the handle again before it uses it
OpResult_rechecked(op) ==
    IF device.esp = None
    THEN [NotConnected(op) EXCEPT !.closed = FALSE, !.stale = TRUE]
    ELSE [NoResult EXCEPT !.op = op, !.kind = "ok", !.toolkit = TRUE]

\* What the body of an operation delivers once its check has passed.
\* platform (line 179) reads CHIP_NAME from the handle as it is now;
\* get_chip_info (lines 228-230) goes through chip_name, whose own check
\* raises when the handle has become None, then through chip_id and platform.
OpResult(op) ==
    LET base == [NoResult EXCEPT !.op = op, !.kind = "ok",
                                 !.stale = (device.esp = None),
                                 !.toolkit = (op \notin {"chip_name", "platform"})]
        plat == _determine_platform(chip_name(device.esp))
        serial == serial_number_str(device.esp, macRead, device.serial_cache)
    IN  IF op = "serial_number_str"
        THEN [base EXCEPT !.kind = serial.kind, !.err = serial.err,
                          !.msg = serial.msg, !.text = serial.text]
        ELSE IF op = "get_chip_info" /\ device.esp = None
        THEN [NotConnected(op) EXCEPT !.closed = FALSE, !.stale = TRUE]
        ELSE IF op \in {"platform", "get_chip_info"}
        THEN IF plat.kind = "raise"
             THEN [base EXCEPT !.kind = "raise", !.err = plat.err]
             ELSE [base EXCEPT !.value = plat.member,
                               !.platform = IF op = "get_chip_info"
                                            THEN Platform[plat.member] ELSE -1]
        ELSE base

OpCall(op) ==
    /\ pc.caller = "idle"
    /\ device.exists
    /\ pc' = [pc EXCEPT !.caller = "op_check"]
    /\ call' = [IdleCall EXCEPT !.op = op]
    /\ result' = NoResult
    /\ attempts' = <<>>
    /\ UNCHANGED <<comports, device, held, monitor, present, notes, poll,
                   openFiles, chipName, macRead, flashInfo, afterStop>>

OpCheck ==
    /\ pc.caller = "op_check"
    /\ IF device.esp = None
       THEN /\ result' = NotConnected(call.op)
            /\ pc' = [pc EXCEPT !.caller = "idle"]
            /\ call' = IdleCall
       ELSE /\ pc' = [pc EXCEPT !.caller = "op_body"]
            /\ UNCHANGED <<result, call>>
    /\ UNCHANGED <<comports, device, held, monitor, present, attempts, notes,
                   poll, openFiles, chipName, macRead, flashInfo, afterStop>>

\* line 333: write_flash(self._esp, ...) of the toolkit may raise, and its
\* exception is not caught; reset and reboot (lines 338-341, 346-349) catch it
OpOutcomes(op) ==
    {OpResult(op)}
    \cup IF op = "write_flash"
         THEN {[OpResult(op) EXCEPT !.kind = "raise", !.err = "ToolkitError"]}
         ELSE {}

OpBody ==
    /\ pc.caller = "op_body"
    /\ call.op /= "get_flash_size"
    /\ result' \in OpOutcomes(call.op)
    /\ pc' = [pc EXCEPT !.caller = "idle"]
    /\ call' = IdleCall
    /\ UNCHANGED <<comports, device, held, monitor, present, attempts, notes,
                   poll, openFiles, chipName, macRead, flashInfo, afterStop>>

\* the body of get_flash_size, lines 250-277; the toolkit answers or raises
GetFlashSizeBody ==
    /\ pc.caller = "op_body"
    /\ call.op = "get_flash_size"
    /\ \E answers \in BOOLEAN :
         LET r == get_flash_size(device.esp, device.flash_size, flashInfo, answers)
         IN  /\ result' = [NoResult EXCEPT !.op = "get_flash_size",
                                           !.kind = r.kind, !.err = r.err,
                                           !.msg = r.msg, !.size = r.size,
                                           !.toolkit = r.toolkit,
                                           !.descriptor = r.descriptor,
                                           !.stale = (device.esp = None)]
             /\ device' = [device EXCEPT !.flash_size = r.cache]
    /\ pc' = [pc EXCEPT !.caller = "idle"]
    /\ call' = IdleCall
    /\ UNCHANGED <<comports, held, monitor, present, attempts, notes,
                   poll, openFiles, chipName, macRead, flashInfo, afterStop>>

----------------------------------------------------------------------------
(* EspBoot.is_connected, lines 309-312: no test of the handle               *)

\* an is_connected that also wants the handle
is_connected_whileopen(port, ports) ==
    device.esp /= None /\ port /= None /\ _is_port_present(port, ports)

is_connected(port, ports) ==
    IF port = None THEN FALSE ELSE _is_port_present(port, ports)

\* the call, its enumeration of the ports and its return
IsConnected ==
    /\ pc.caller = "idle"
    /\ device.exists
    /\ result' = [NoResult EXCEPT
                    !.op = "is_connected", !.kind = "ok",
                    !.stale = (device.esp = None),
                    !.value = IF is_connected(device.port, comports)
                              THEN "True" ELSE "False"]
    /\ attempts' = <<>>
    /\ UNCHANGED <<comports, device, held, monitor, pc, present, call, notes,
                   poll, openFiles, chipName, macRead, flashInfo, afterStop>>

----------------------------------------------------------------------------
(* EspBoot.write_flash_files, lines 314-328. A segment is modelled by its   *)
(* position in the list; the file handle opened for segment i is i.         *)

MaxSegments == 2

\* The segment lists differ in their length; whether a path can be opened is
\* decided when open() is called on it
SegmentLists == {[i \in 1..n |-> i] : n \in 0..MaxSegments}

\* closing the files after the write instead of in a finally clause
ClosedOnExit_nofinally(opened, exc) ==
    IF exc = None THEN {opened[i] : i \in 1..Len(opened)} ELSE {}

\* The handles write_flash_files closes when it leaves, lines 323-328
ClosedOnExit(opened, exc) == {opened[i] : i \in 1..Len(opened)}

WffCall(segments) ==
    /\ pc.caller = "idle"
    /\ device.exists
    /\ pc' = [pc EXCEPT !.caller = "wff_check"]
    /\ call' = [IdleCall EXCEPT !.op = "write_flash_files", !.segments = segments]
    /\ result' = NoResult
    /\ attempts' = <<>>
    /\ UNCHANGED <<comports, device, held, monitor, present, notes, poll,
                   openFiles, chipName, macRead, flashInfo, afterStop>>

\* lines 315-317
WffCheck ==
    /\ pc.caller = "wff_check"
    /\ IF device.esp = None
       THEN /\ result' = NotConnected("write_flash_files")
            /\ pc' = [pc EXCEPT !.caller = "idle"]
            /\ call' = IdleCall
       ELSE /\ pc' = [pc EXCEPT !.caller = "wff_open"]
            /\ call' = [call EXCEPT !.idx = 1]
            /\ UNCHANGED result
    /\ UNCHANGED <<comports, device, held, monitor, present, attempts, notes,
                   poll, openFiles, chipName, macRead, flashInfo, afterStop>>

\* lines 319-321: the next segment's file is opened, or open() raises
WffOpen ==
    /\ pc.caller = "wff_open"
    /\ IF call.idx > Len(call.segments)
       THEN /\ pc' = [pc EXCEPT !.caller = "wff_write"]
            /\ UNCHANGED <<call, openFiles>>
       ELSE \/ /\ openFiles' = openFiles \cup {call.segments[call.idx]}
               /\ call' = [call EXCEPT
                              !.opened = Append(call.opened, call.segments[call.idx]),
                              !.idx = call.idx + 1]
               /\ pc' = pc
            \/ /\ call' = [call EXCEPT !.exc = "OSError"]
               /\ pc' = [pc EXCEPT !.caller = "wff_finally"]
               /\ UNCHANGED openFiles
    /\ UNCHANGED <<comports, device, held, monitor, present, result, attempts,
                   notes, poll, chipName, macRead, flashInfo, afterStop>>

\* line 322: the toolkit's write_flash returns or raises
WffWrite ==
    /\ pc.caller = "wff_write"
    /\ \/ call' = call
       \/ call' = [call EXCEPT !.exc = "write_flash"]
    /\ pc' = [pc EXCEPT !.caller = "wff_finally"]
    /\ UNCHANGED <<comports, device, held, monitor, present, result, attempts,
                   notes, poll, openFiles, chipName, macRead, flashInfo, afterStop>>

\* lines 323-328: the finally clause, then the return or the pending raise
WffFinally ==
    /\ pc.caller = "wff_finally"
    /\ openFiles' = openFiles \ ClosedOnExit(call.opened, call.exc)
    /\ result' = IF call.exc = None
                 THEN [NoResult EXCEPT !.op = "write_flash_files", !.kind = "ok",
                                       !.toolkit = TRUE,
                                       !.files = Len(call.opened)]
                 ELSE [NoResult EXCEPT !.op = "write_flash_files",
                                       !.kind = "raise", !.err = call.exc,
                                       !.toolkit = (call.exc = "write_flash"),
                                       !.files = Len(call.opened)]
    /\ pc' = [pc EXCEPT !.caller = "idle"]
    /\ call' = IdleCall
    /\ UNCHANGED <<comports, device, held, monitor, present, attempts, notes,
                   poll, chipName, macRead, flashInfo, afterStop>>

----------------------------------------------------------------------------
(* EspBootMonitor._run, lines 64-79, and the observer, lines 26-39 and      *)
(* 127-137                                                                  *)

MaxNotes == 3

NoPoll == [recorded |-> FALSE, sent |-> <<>>]

\* nothing was enumerated or notified with the flag cleared
NotStopped == [enums |-> 0, notes |-> 0]

\* a loop that does not test the flag
MonWhile_deaf ==
    /\ pc.monitor = "while"
    /\ Len(notes) < MaxNotes
    /\ pc' = [pc EXCEPT !.monitor = "enum"]
    /\ UNCHANGED <<comports, device, held, monitor, present, call, result,
                   attempts, notes, poll, openFiles, chipName, macRead,
                   flashInfo, afterStop>>

\* line 65: the loop goes on while the flag is set; otherwise the thread ends.
\* No further iteration is begun once MaxNotes notifications were delivered;
\* the count of what the thread did after stop() ends with the thread.
MonWhile ==
    /\ pc.monitor = "while"
    /\ monitor.running => Len(notes) < MaxNotes
    /\ pc' = [pc EXCEPT !.monitor = IF monitor.running THEN "enum" ELSE "dead"]
    /\ afterStop' = NotStopped
    /\ UNCHANGED <<comports, device, held, monitor, present, call, result,
                   attempts, notes, poll, openFiles, chipName, macRead,
                   flashInfo>>

\* lines 66-67: the ports are enumerated
MonEnum ==
    /\ pc.monitor = "enum"
    /\ present' = InSeq(monitor.port, comports)
    /\ poll' = [recorded |-> monitor.device_present, sent |-> <<>>]
    /\ pc' = [pc EXCEPT !.monitor = "connect"]
    /\ afterStop' = IF monitor.running THEN afterStop
                    ELSE [afterStop EXCEPT !.enums = @ + 1]
    /\ UNCHANGED <<comports, device, held, monitor, call, result, attempts,
                   notes, openFiles, chipName, macRead, flashInfo>>

\* a connect test that ignores the recorded state
ConnectEdge_level(pres, recorded) == pres

\* line 69: a connect is notified when ...
ConnectEdge(pres, recorded) == pres /\ ~recorded

\* line 74: a disconnect is notified when ...
DisconnectEdge(pres, recorded) == ~pres /\ recorded

\* lines 69-72; the observer's update only logs a connect
MonConnect ==
    /\ pc.monitor = "connect"
    /\ IF ConnectEdge(present, monitor.device_present)
       THEN /\ monitor' = [monitor EXCEPT !.device_present = TRUE]
            /\ notes' = Append(notes, "connect")
            /\ poll' = [poll EXCEPT !.sent = Append(poll.sent, "connect")]
            /\ afterStop' = IF monitor.running THEN afterStop
                            ELSE [afterStop EXCEPT !.notes = @ + 1]
       ELSE UNCHANGED <<monitor, notes, poll, afterStop>>
    /\ pc' = [pc EXCEPT !.monitor = "disconnect"]
    /\ UNCHANGED <<comports, device, held, present, call, result, attempts,
                   openFiles, chipName, macRead, flashInfo>>

\* lines 74-77; EspBootObserver.update calls the controller's close(), which
\* then runs in this thread
MonDisconnect ==
    /\ pc.monitor = "disconnect"
    /\ IF DisconnectEdge(present, monitor.device_present)
       THEN /\ monitor' = [monitor EXCEPT !.device_present = FALSE]
            /\ notes' = Append(notes, "disconnect")
            /\ poll' = [poll EXCEPT !.sent = Append(poll.sent, "disconnect")]
            /\ afterStop' = IF monitor.running THEN afterStop
                            ELSE [afterStop EXCEPT !.notes = @ + 1]
            /\ pc' = [pc EXCEPT !.monitor =
                         IF monitor.observer = "EspBootObserver"
                         THEN "c144" ELSE "sleep"]
       ELSE /\ pc' = [pc EXCEPT !.monitor = "sleep"]
            /\ UNCHANGED <<monitor, notes, poll, afterStop>>
    /\ UNCHANGED <<comports, device, held, present, call, result, attempts,
                   openFiles, chipName, macRead, flashInfo>>

\* line 79; the locals of the finished iteration are dropped
MonSleep ==
    /\ pc.monitor = "sleep"
    /\ pc' = [pc EXCEPT !.monitor = "while"]
    /\ present' = FALSE
    /\ poll' = NoPoll
    /\ UNCHANGED <<comports, device, held, monitor, call, result, attempts,
                   notes, openFiles, chipName, macRead, flashInfo, afterStop>>

\* EspBootMonitor.stop, lines 59-60, called on a monitor by its owner
MonitorStop ==
    /\ monitor.exists
    /\ monitor.running
    /\ monitor' = [monitor EXCEPT !.running = FALSE]
    /\ UNCHANGED <<comports, device, held, pc, present, call, result,
                   attempts, notes, poll, openFiles, chipName, macRead, flashInfo, afterStop>>

MonitorThread ==
    \/ MonWhile \/ MonEnum \/ MonConnect \/ MonDisconnect \/ MonSleep
    \/ CloseStep("monitor")

----------------------------------------------------------------------------
(* The controller with its monitor thread, a caller thread and the ports    *)

DefaultChipName == <<"E","S","P","3","2","-","S","3">>

\* read_mac() returns the six bytes 01 02 03 04 05 06
DefaultMacRead == [kind |-> "bytes", bytes |-> <<1, 2, 3, 4, 5, 6>>, int |-> 0]

\* a chip whose flash size the toolkit cannot tell (it reports None) on a
\* loader without a size attribute; the other cases are those of SpecFlash
DefaultFlashInfo ==
    [info |-> NoDescriptor,
     attr |-> [kind |-> "absent", text |-> <<>>, int |-> 0]]

Init ==
    /\ comports \in {Enumerate(S) : S \in SUBSET Ports}
    /\ device = NoDevice
    /\ held = {}
    /\ monitor = NoMonitor
    /\ pc = [caller |-> "idle", monitor |-> "none"]
    /\ present = FALSE
    /\ call = IdleCall
    /\ result = NoResult
    /\ attempts = <<>>
    /\ notes = <<>>
    /\ poll = NoPoll
    /\ openFiles = {}
    /\ chipName = DefaultChipName
    /\ macRead = DefaultMacRead
    /\ flashInfo = DefaultFlashInfo
    /\ afterStop = NotStopped

Next ==
    \/ \E p \in Ports : Plug(p)
    \/ \E p \in Ports : Unplug(p)
    \/ \E port \in Ports \cup {None, "auto"}, stub \in BOOLEAN : OpenBegin(port, stub)
    \/ AutoList
    \/ AutoTry
    \/ Detect
    \/ RunStub
    \/ AttachFlash
    \/ OpenExcept
    \/ OpenFinish
    \/ \E port \in Ports \cup {None} : Construct(port)
    \/ IsConnected
    \/ CloseCall
    \/ CloseStep("caller")
    \/ \E op \in Ops : OpCall(op)
    \/ OpCheck
    \/ OpBody
    \/ GetFlashSizeBody
    \/ \E segments \in SegmentLists : WffCall(segments)
    \/ WffCheck
    \/ WffOpen
    \/ WffWrite
    \/ WffFinally
    \/ MonitorThread

Spec == Init /\ [][Next]_vars

\* The monitor thread is scheduled fairly
FairSpec == Spec /\ WF_vars(MonitorThread)

----------------------------------------------------------------------------
(* A presence monitor on its own: EspBootMonitor(port, observer) with an    *)
(* observer whose update records what it is told                            *)

InitMonitor ==
    /\ comports \in {Enumerate(S) : S \in SUBSET Ports}
    /\ device = NoDevice
    /\ held = {}
    /\ \E port \in Ports : monitor = NewMonitor(port, "Recorder")
    /\ pc = [caller |-> "idle", monitor |-> "while"]
    /\ present = FALSE
    /\ call = IdleCall
    /\ result = NoResult
    /\ attempts = <<>>
    /\ notes = <<>>
    /\ poll = NoPoll
    /\ openFiles = {}
    /\ chipName = DefaultChipName
    /\ macRead = DefaultMacRead
    /\ flashInfo = DefaultFlashInfo
    /\ afterStop = NotStopped

NextMonitor ==
    \/ \E p \in Ports : Plug(p)
    \/ \E p \in Ports : Unplug(p)
    \/ MonWhile
    \/ MonEnum
    \/ MonConnect
    \/ MonDisconnect
    \/ MonSleep
    \/ MonitorStop

SpecMonitor == InitMonitor /\ [][NextMonitor]_vars

----------------------------------------------------------------------------
(* Platform identification on an open controller, for each chip name the    *)
(* loader may report                                                        *)

Letters(s) == {i \in 1..Len(s) : LowerChar(s[i]) /= UpperChar(s[i])}

\* Every way of writing s in upper and lower case letters
AllCase(s) ==
    {[i \in 1..Len(s) |-> IF i \in m THEN LowerChar(s[i]) ELSE UpperChar(s[i])]
        : m \in SUBSET Letters(s)}

ShortNames ==
    {<<"E","S","P","3","2">>,
     <<"E","S","P","3","2","-","S","2">>,
     <<"E","S","P","3","2","-","S","3">>,
     <<"E","S","P","3","2","-","C","3">>,
     <<"E","S","P","3","2","C","3">>,
     <<"E","S","P","3","2","-","C","6">>,
     <<"E","S","P","8","2","6","6">>}

LongNames ==
    {<<"u","n","k","n","o","w","n">>,
     <<"E","S","P","3","2","-","S","3"," ","(","r","e","v","i","s","i","o","n"," ","2",")">>,
     <<"e","s","p","3","2","-","s","2","-","x","y","z">>,
     <<"E","S","P","3","2","-","S","2","/","E","S","P","3","2","-","S","3">>}

ChipNames ==
    UNION {AllCase(s) : s \in ShortNames}
        \cup UNION {{s, Lower(s), Upper(s)} : s \in LongNames}

InitPlatform ==
    /\ comports = <<"B">>
    /\ device = [NoDevice EXCEPT !.exists = TRUE, !.port = "B",
                                 !.esp = "ESPLoader", !.stack = "ExitStack",
                                 !.monitor = "EspBootMonitor"]
    /\ held = {"B"}
    /\ monitor = NewMonitor("B", "EspBootObserver")
    /\ pc = [caller |-> "idle", monitor |-> "while"]
    /\ present = FALSE
    /\ call = IdleCall
    /\ result = NoResult
    /\ attempts = <<>>
    /\ notes = <<>>
    /\ poll = NoPoll
    /\ openFiles = {}
    /\ chipName \in ChipNames
    /\ macRead = DefaultMacRead
    /\ flashInfo = DefaultFlashInfo
    /\ afterStop = NotStopped

NextPlatform ==
    \/ \E op \in {"platform", "get_chip_info"} : OpCall(op)
    \/ OpCheck
    \/ OpBody

SpecPlatform == InitPlatform /\ [][NextPlatform]_vars

----------------------------------------------------------------------------
(* The serial number of an open controller, for each behaviour of read_mac  *)
(* and each cached serial number                                            *)

MacReads ==
    {[kind |-> k, bytes |-> <<>>, int |-> 0] : k \in {"missing", "raise", "none", "str"}}
    \cup {[kind |-> "bytes", bytes |-> b, int |-> 0] :
             b \in {<<>>, <<171>>, <<10, 255>>, <<1, 2, 3, 4, 5, 6>>,
                    <<222, 173, 190, 239, 0, 1, 2, 3>>,
                    <<1, 2, 3, 4, 5, 6, 7, 8, 9>>}}
    \cup {[kind |-> "tuple", bytes |-> b, int |-> 0] :
             b \in {<<36, 10, 196, 0, 1, 16>>, <<1, 2, 256>>,
                    <<9, 8, 7, 6, 5, 4, 3, 2, 1, 0>>}}
    \cup {[kind |-> "int", bytes |-> <<>>, int |-> n] :
             n \in {0, 66051, 2147483647, -1}}

SerialTexts ==
    {<<>>,
     <<"0","a","0","b">>,
     <<"0","1","0","2","0","3","0","4","0","5","0","6">>,
     <<"A","A","B","B","C","C","D","D","E","E","F","F","0","0","1","1">>,
     <<"x","y","z">>}

InitSerial ==
    /\ comports = <<"B">>
    /\ device = [NoDevice EXCEPT !.exists = TRUE, !.port = "B",
                                 !.esp = "ESPLoader", !.stack = "ExitStack",
                                 !.monitor = "EspBootMonitor"]
    /\ held = {"B"}
    /\ monitor = NewMonitor("B", "EspBootObserver")
    /\ pc = [caller |-> "idle", monitor |-> "while"]
    /\ present = FALSE
    /\ call = IdleCall
    /\ result = NoResult
    /\ attempts = <<>>
    /\ notes = <<>>
    /\ poll = NoPoll
    /\ openFiles = {}
    /\ chipName = DefaultChipName
    /\ macRead \in MacReads
    /\ flashInfo = DefaultFlashInfo
    /\ afterStop = NotStopped

NextSerial ==
    \/ \E serial \in SerialTexts : set_serial_number_str(serial)
    \/ OpCall("serial_number_str")
    \/ OpCheck
    \/ OpBody

SpecSerial == InitSerial /\ [][NextSerial]_vars

----------------------------------------------------------------------------
(* The flash size of a controller opened on port "B", for each size the     *)
(* toolkit and the loader may report                                        *)

Suffixes == {<<"M","B">>, <<"K","B">>, <<"B">>, <<>>}

Numerals == {<<"0">>, <<"4">>, <<"1","6">>, <<"5","1","2">>, <<"1","0","2","4">>}

\* texts of the documented forms, and texts outside them
SizeTexts ==
    {n \o x : n \in Numerals, x \in Suffixes}
    \cup {<<"2","0","9","7","1","5","2">>, <<"2","0","9","7","1","5","2","B">>}
    \cup {<<>>, <<"M","B">>, <<"B">>, <<"a","b","c">>, <<"4","G","B">>,
          <<"4",".","5","M","B">>, <<"0","x","1","0">>, <<"4","M","B","B">>,
          <<"4","_","M","B">>, <<"4"," ","4">>, <<"-">>,
          <<"4","m","b">>, <<" ","4","M","B"," ">>, <<"4"," ","M","B">>,
          <<"-","4","M","B">>, <<"+","4","K","B">>, <<"1","_","0","K","B">>}

SizeDescriptors ==
    {[kind |-> k, text |-> <<>>, int |-> 0] : k \in {"none", "object"}}
    \cup {[kind |-> "str", text |-> t, int |-> 0] : t \in SizeTexts}
    \cup {[kind |-> "int", text |-> <<>>, int |-> n] : n \in {0, 4194304}}
    \cup {[kind |-> "float", text |-> <<>>, int |-> 4]}

SizeAttributes ==
    {[kind |-> k, text |-> <<>>, int |-> 0] : k \in {"absent", "none"}}
    \cup {[kind |-> "str", text |-> <<"2","M","B">>, int |-> 0],
          [kind |-> "str", text |-> <<"?">>, int |-> 0]}

InitFlash ==
    /\ comports = <<"B">>
    /\ device = NoDevice
    /\ held = {}
    /\ monitor = NoMonitor
    /\ pc = [caller |-> "idle", monitor |-> "none"]
    /\ present = FALSE
    /\ call = IdleCall
    /\ result = NoResult
    /\ attempts = <<>>
    /\ notes = <<>>
    /\ poll = NoPoll
    /\ openFiles = {}
    /\ chipName = DefaultChipName
    /\ macRead = DefaultMacRead
    /\ flashInfo \in [info : SizeDescriptors, attr : SizeAttributes]
    /\ afterStop = NotStopped

NextFlash ==
    \/ OpenBegin("B", TRUE)
    \/ Detect
    \/ RunStub
    \/ AttachFlash
    \/ OpenExcept
    \/ OpenFinish
    \/ OpCall("get_flash_size")
    \/ OpCheck
    \/ GetFlashSizeBody
    \/ CloseCall
    \/ CloseStep("caller")

SpecFlash == InitFlash /\ [][NextFlash]_vars

----------------------------------------------------------------------------
(* An open controller, its monitor thread and a caller that closes it,      *)
(* writes flash, resets the chip and asks is_connected(), while ports come  *)
(* and go                                                                   *)

InitStop ==
    /\ comports \in {Enumerate(S) : S \in SUBSET Ports}
    /\ \E port \in Ports :
         /\ device = [NoDevice EXCEPT !.exists = TRUE, !.port = port,
                                      !.esp = "ESPLoader", !.stack = "ExitStack",
                                      !.monitor = "EspBootMonitor"]
         /\ held = {port}
         /\ monitor = NewMonitor(port, "EspBootObserver")
    /\ pc = [caller |-> "idle", monitor |-> "while"]
    /\ present = FALSE
    /\ call = IdleCall
    /\ result = NoResult
    /\ attempts = <<>>
    /\ notes = <<>>
    /\ poll = NoPoll
    /\ openFiles = {}
    /\ chipName = DefaultChipName
    /\ macRead = DefaultMacRead
    /\ flashInfo = DefaultFlashInfo
    /\ afterStop = NotStopped

NextStop ==
    \/ \E p \in Ports : Plug(p)
    \/ \E p \in Ports : Unplug(p)
    \/ CloseCall
    \/ CloseStep("caller")
    \/ \E op \in {"write_flash", "reset"} : OpCall(op)
    \/ OpCheck
    \/ OpBody
    \/ IsConnected
    \/ MonitorThread

SpecStop == InitStop /\ [][NextStop]_vars

\* The monitor thread is scheduled fairly
FairSpecStop == SpecStop /\ WF_vars(MonitorThread)

----------------------------------------------------------------------------
(* Properties                                                               *)

Last(seq) == seq[Len(seq)]

CloseLabels == {"c144", "c145", "c146", "c147", "c148", "c150", "c151"}

WffLabels == {"wff_check", "wff_open", "wff_write", "wff_finally"}

\* C1: an identification, flash or reset operation that finds the device
\* handle None fails with EspBootInvalidStateError and does not reach the
\* toolkit.
C1_ClosedOperationRaisesInvalidState ==
    result.closed =>
        /\ result.kind = "raise"
        /\ result.err = "EspBootInvalidStateError"
        /\ ~result.toolkit

\* C2: open() on the auto-detect sentinel delivers EspBootNotFoundError when
\* no port is enumerated and when no candidate connects.
C2_AutoOpenDeliversNotFound ==
    (result.op = "open" /\ result.kind = "raise" /\ IsAuto(result.port)) =>
        result.err = "EspBootNotFoundError"

\* C4: in every finished iteration of the polling loop the observer was told
\* exactly "connect" when the port was seen present and recorded absent,
\* exactly "disconnect" when seen absent and recorded present, and nothing
\* otherwise; connects and disconnects alternate, connect first.
C4_NotificationsFollowEdges ==
    /\ pc.monitor = "sleep" =>
          poll.sent = IF present /\ ~poll.recorded THEN <<"connect">>
                      ELSE IF ~present /\ poll.recorded THEN <<"disconnect">>
                      ELSE <<>>
    /\ \A i \in 1..Len(notes) :
          notes[i] = IF i % 2 = 1 THEN "connect" ELSE "disconnect"

\* a quiet poll after a connect and a disconnect were notified
C4_Witness ==
    /\ monitor.observer = "Recorder"
    /\ notes = <<"connect", "disconnect">>
    /\ pc.monitor = "sleep"
    /\ poll.sent = <<>>

\* C5: a close() the caller invokes directly after a close() that returned
\* comes back at its first test without an error, stopping no monitor,
\* releasing no transport and changing no field; after it the stack is None,
\* and so are the handle and the monitor reference unless the monitor thread
\* is itself inside close() at that moment.
C5_SecondCloseIsNoOp ==
    /\ [][(Close144("caller") /\ call.again) =>
             /\ pc'.caller = "idle"
             /\ result'.kind = "ok"
             /\ device' = device
             /\ held' = held
             /\ monitor' = monitor]_vars
    /\ []((result.op = "close" /\ result.again) =>
             /\ result.kind = "ok"
             /\ device.stack = None
             /\ pc.monitor \notin CloseLabels =>
                   /\ device.esp = None
                   /\ device.monitor \in {None, "absent"}
                   /\ held = {}
                   /\ ~monitor.running)

\* an opened controller closed twice in succession by the caller
C5_Witness ==
    /\ result.op = "close"
    /\ result.again
    /\ result.kind = "ok"
    /\ device.monitor = None
    /\ device.esp = None
    /\ monitor.exists

\* C6: whenever write_flash_files is not executing, every file handle it
\* opened is closed, whether it returned, the toolkit's write failed or a
\* later file could not be opened.
C6_FilesClosedOnExit ==
    pc.caller \notin WffLabels => openFiles = {}

\* a second file failed to open after the first had been opened
C6_Witness ==
    /\ result.op = "write_flash_files"
    /\ result.kind = "raise"
    /\ result.err = "OSError"
    /\ result.files >= 1
    /\ openFiles = {}

\* C7: when open() has raised, no transport context is held, no monitor and
\* no instance exist, and the error is EspBootError chained from its cause;
\* after a failure of detect_chip on an explicit port, of run_stub or of
\* attach_flash it names the port the toolkit was last called on.
C7_FailedOpenReleasesAll ==
    (result.op = "open" /\ result.kind = "raise") =>
        /\ held = {}
        /\ ~device.exists
        /\ ~monitor.exists
        /\ pc.monitor = "none"
        /\ result.err = "EspBootError"
        /\ result.cause /= None
        /\ result.cause \in {"detect_chip", "run_stub", "attach_flash"} =>
              result.port = Last(attempts)

\* auto-detection connected on its second candidate, then attach_flash failed
C7_Witness ==
    /\ result.op = "open"
    /\ result.kind = "raise"
    /\ result.cause = "attach_flash"
    /\ Len(attempts) = 2
    /\ result.port = attempts[2]
    /\ held = {}

\* The text _list_serial_ports matches the keywords against: description,
\* manufacturer and product, those present, separated by spaces, in lower case
PortText(p) ==
    LET d == PortInfo[p].description
        m == PortInfo[p].manufacturer
        r == PortInfo[p].product
        dm == IF d = <<>> THEN m ELSE IF m = <<>> THEN d ELSE d \o <<" ">> \o m
    IN  Lower(IF dm = <<>> THEN r ELSE IF r = <<>> THEN dm ELSE dm \o <<" ">> \o r)

KnownPort(p) ==
    \/ PortInfo[p].vid \in {12346, 4292, 6790, 1027, 1659}
    \/ \E k \in {<<"e","s","p">>, <<"c","p","2","1","0">>, <<"c","h","3","4","0">>,
                 <<"c","h","9","1","0">>, <<"f","t","d","i">>,
                 <<"s","i","l","i","c","o","n"," ","l","a","b","s">>} :
          Contains(k, PortText(p))

Index(x, seq) == CHOOSE i \in 1..Len(seq) : seq[i] = x

\* cand lists exactly the ports of enum, each once, every known port before
\* every other port, and ports of the same group in their order in enum
KnownFirst(cand, enum) ==
    /\ Len(cand) = Len(enum)
    /\ \A i \in 1..Len(enum) : InSeq(enum[i], cand)
    /\ \A i, j \in 1..Len(cand) :
          i < j =>
             /\ cand[i] /= cand[j]
             /\ KnownPort(cand[j]) => KnownPort(cand[i])
             /\ KnownPort(cand[i]) = KnownPort(cand[j]) =>
                   Index(cand[i], enum) < Index(cand[j], enum)

\* C8: the candidates of auto-detection are the enumerated ports with the
\* known ones (vendor id or keyword) first, enumeration order kept in each
\* group; detect_chip is called on them in that order, each at most once and
\* on none after the first that connects; the controller and its monitor are
\* bound to that port.
C8_AutoDetectOrder ==
    /\ [][AutoList => KnownFirst(call'.candidates, comports)]_vars
    /\ []((call.op = "open" /\ IsAuto(call.port) /\ pc.caller /= "auto_list") =>
             /\ Len(attempts) <= Len(call.candidates)
             /\ attempts = SubSeq(call.candidates, 1, Len(attempts))
             /\ held = {})
    /\ []((call.op = "open" /\ call.candidates /= <<>> /\ ~IsAuto(call.port)) =>
             /\ attempts = SubSeq(call.candidates, 1, Len(attempts))
             /\ call.port = Last(attempts)
             /\ held = {call.port}
             /\ pc.caller \in {"run_stub", "attach", "open_finish", "open_except"})
    /\ [][(OpenFinish /\ call.candidates /= <<>>) =>
             /\ device'.port = Last(attempts)
             /\ monitor'.port = Last(attempts)
             /\ monitor'.running
             /\ held' = {Last(attempts)}
             /\ attempts' = attempts]_vars

\* with all four ports enumerated, both known ports failed, then the first
\* other port connected and the controller was opened on it
C8_Witness ==
    /\ result.op = "open"
    /\ result.kind = "ok"
    /\ attempts = <<"B", "C", "A">>
    /\ device.port = "A"
    /\ monitor.port = "A"

\* C3: once open() has returned, whenever the controller's port is absent
\* from the enumeration and stays absent, and the caller does not run close()
\* from then on, the controller is eventually closed: handle cleared,
\* transport released, monitor stopped.
C3_DisconnectLeadsToClose ==
    []((/\ device.exists
        /\ device.esp /= None
        /\ [](~InSeq(device.port, comports) /\ pc.caller \notin CloseLabels))
       => <>(device.esp = None /\ held = {} /\ ~monitor.running))

\* C9: on an open controller whose chip name is "ESP32-C3" in any letter
\* case, platform returns the member ESP32C3.
C9_HyphenatedC3IsESP32C3 ==
    (/\ result.op = "platform"
     /\ result.kind /= "none"
     /\ ~result.closed
     /\ Lower(chipName) = <<"e","s","p","3","2","-","c","3">>)
    => (result.kind = "ok" /\ result.value = "ESP32C3")

\* C10: on an open controller whose chip name contains "esp32" but no more
\* specific variant, platform returns the member ESP32 without raising and
\* get_chip_info reports that member's integer value.
C10_PlainEsp32IsESP32 ==
    (/\ result.op \in {"platform", "get_chip_info"}
     /\ result.kind /= "none"
     /\ ~result.closed
     /\ Contains(<<"e","s","p","3","2">>, Lower(chipName))
     /\ ~Contains(<<"e","s","p","3","2","-">>, Lower(chipName))
     /\ ~Contains(<<"e","s","p","3","2","c","3">>, Lower(chipName)))
    => /\ result.kind = "ok"
       /\ result.value = "ESP32"
       /\ "ESP32" \in DOMAIN Platform
       /\ result.op = "get_chip_info" => result.platform = Platform["ESP32"]

\* C11: on the lower-cased chip name the variant tests come first: a name
\* containing "esp32-s3" gives ESP32S3 (also when it contains "esp32-s2"),
\* otherwise a name containing "esp32-s2" gives ESP32S2; such a name never
\* gives plain ESP32 or UNKNOWN.
C11_VariantsBeforePlain ==
    (/\ result.op \in {"platform", "get_chip_info"}
     /\ result.kind /= "none"
     /\ ~result.closed
     /\ ~result.stale)
    => LET n == Lower(chipName)
           s3 == \E i \in 1..Len(n) : /\ i + 7 <= Len(n)
                                      /\ SubSeq(n, i, i + 7) = <<"e","s","p","3","2","-","s","3">>
           s2 == \E i \in 1..Len(n) : /\ i + 7 <= Len(n)
                                      /\ SubSeq(n, i, i + 7) = <<"e","s","p","3","2","-","s","2">>
       IN  /\ s3 => (result.kind = "ok" /\ result.value = "ESP32S3")
           /\ (s2 /\ ~s3) => (result.kind = "ok" /\ result.value = "ESP32S2")
           /\ (s2 \/ s3) => result.value \notin {"ESP32", "UNKNOWN"}

\* platform was read from a loader named with both variants, in mixed case
C11_Witness ==
    /\ result.op = "platform"
    /\ result.value = "ESP32S3"
    /\ Contains(<<"-","s","2">>, Lower(chipName))
    /\ chipName /= Lower(chipName)

\* C12: on an open controller whose MAC source (the live read, else the
\* cached value, else six zero bytes) yields a byte sequence m of length
\* n <= 8, serial_number_str returns 16 upper-case hexadecimal characters: the
\* bytes of (8 - n zero bytes, then m) in reversed order; 01 02 03 04 05 06
\* gives "0605040302010000".
C12_SerialNumberIsReversedPaddedHex ==
    (/\ result.op = "serial_number_str"
     /\ result.kind /= "none"
     /\ ~result.closed
     /\ macRead.kind \notin {"int", "str"})
    => LET m == IF macRead.kind \in {"bytes", "tuple"} THEN macRead.bytes
                ELSE IF device.serial_cache.set THEN device.serial_cache.bytes
                ELSE <<0, 0, 0, 0, 0, 0>>
           n == Len(m)
           padded == [j \in 1..8 |-> IF j <= 8 - n THEN 0 ELSE m[j - (8 - n)]]
       IN  (n <= 8 /\ \A i \in 1..n : m[i] \in 0..255)
           => /\ result.kind = "ok"
              /\ Len(result.text) = 16
              /\ \A i \in 1..8 :
                   /\ result.text[2 * i - 1] = HexDigits[(padded[9 - i] \div 16) + 1]
                   /\ result.text[2 * i] = HexDigits[(padded[9 - i] % 16) + 1]
              /\ m = <<1, 2, 3, 4, 5, 6>>
                 => result.text = <<"0","6","0","5","0","4","0","3",
                                    "0","2","0","1","0","0","0","0">>

\* the serial number of a loader whose MAC reads 01 02 03 04 05 06 was returned
C12_Witness ==
    /\ result.op = "serial_number_str"
    /\ macRead.kind = "bytes"
    /\ macRead.bytes = <<1, 2, 3, 4, 5, 6>>
    /\ result.text = <<"0","6","0","5","0","4","0","3",
                       "0","2","0","1","0","0","0","0">>

\* C13: a read-MAC result that cannot be normalized to 8 bytes (a byte
\* sequence longer than 8, an integer that does not fit in 6 bytes, a value
\* not convertible to bytes) makes serial_number_str raise EspBootError
\* "Invalid MAC address length"; no other error type gets out.
C13_BadMacRaisesInvalidLength ==
    (/\ result.op = "serial_number_str"
     /\ result.kind /= "none"
     /\ ~result.closed
     /\ \/ macRead.kind \in {"bytes", "tuple"} /\ Len(macRead.bytes) > 8
        \/ macRead.kind = "int" /\ macRead.int < 0
        \/ macRead.kind = "str"
        \/ macRead.kind = "tuple" /\ \E i \in 1..Len(macRead.bytes) :
                                        macRead.bytes[i] \notin 0..255)
    => /\ result.kind = "raise"
       /\ result.err = "EspBootError"
       /\ result.msg = "Invalid MAC address length"

\* a text of decimal digits only
IsNumeral(t) ==
    /\ Len(t) > 0
    /\ \A i \in 1..Len(t) : t[i] \in {"0","1","2","3","4","5","6","7","8","9"}

RECURSIVE Pow10(_)
Pow10(k) == IF k = 0 THEN 1 ELSE 10 * Pow10(k - 1)

RECURSIVE SumTo(_, _)
SumTo(f, n) == IF n = 0 THEN 0 ELSE f[n] + SumTo(f, n - 1)

\* the number a numeral denotes
NumeralValue(t) ==
    SumTo([i \in 1..Len(t) |->
             ((CHOOSE d \in 0..9 : ToString(d) = t[i]) * Pow10(Len(t) - i))],
          Len(t))

\* a text that reads as an integer followed by one of the suffixes "MB",
\* "KB", "B" or nothing, in any letter case and with blanks around the text
\* or the integer
ReadsAsSize(t) ==
    \E cut \in 0..2 :
        /\ cut <= Len(Strip(t))
        /\ Upper(SubSeq(Strip(t), Len(Strip(t)) - cut + 1, Len(Strip(t))))
             \in {<<"M","B">>, <<"K","B">>, <<"B">>, <<>>}
        /\ LET w == Strip(SubSeq(Strip(t), 1, Len(Strip(t)) - cut))
               u == IF w /= <<>> /\ w[1] \in {"+", "-"} THEN Tail(w) ELSE w
               plain == SelectSeq(u, LAMBDA c : c /= "_")
           IN  /\ IsNumeral(plain)
               /\ u[1] /= "_" /\ u[Len(u)] /= "_"
               /\ \A i \in 1..(Len(u) - 1) : ~(u[i] = "_" /\ u[i + 1] = "_")

C15_FlashSizeCached ==
    /\ [][(device.exists /\ device.flash_size /= <<>>)
            => device'.flash_size = device.flash_size]_vars
    /\ [][(/\ pc.caller = "op_body"
           /\ call.op = "get_flash_size"
           /\ pc'.caller = "idle")
          => IF device.flash_size /= <<>>
             THEN /\ result'.kind = "ok"
                  /\ result'.size = device.flash_size
                  /\ ~result'.toolkit
             ELSE /\ result'.toolkit
                  /\ result'.kind = "raise" => device'.flash_size = <<>>
                  /\ result'.kind = "ok" => /\ result'.size /= <<>>
                                            /\ device'.flash_size = result'.size]_vars

\* the size was returned from the cache, the toolkit was not queried
C15_Witness ==
    /\ result.op = "get_flash_size"
    /\ result.kind = "ok"
    /\ ~result.toolkit
    /\ device.esp /= None
    /\ result.size = device.flash_size
    /\ result.size /= <<>>

\* C16: in every execution of close() on an open controller that owns a
\* monitor, the monitor's stop() comes before the release of the transport,
\* and the references are set to None only after the release: the transport
\* is never released while the monitor's flag is set, a close() that is past
\* line 147 has the transport released, and a reference that is None implies
\* a released transport.
C16_StopThenReleaseThenClear ==
    /\ (monitor.exists /\ held = {}) => ~monitor.running
    /\ \A t \in {"caller", "monitor"} :
         pc[t] \in {"c148", "c150", "c151"}
         => /\ held = {}
            /\ monitor.exists => ~monitor.running
    /\ (device.exists /\ (device.monitor = None \/ device.stack = None
                          \/ device.esp = None))
       => held = {}

\* the caller's close() has stopped the monitor and released the transport;
\* no reference is cleared yet
C16_Witness ==
    /\ pc.caller = "c148"
    /\ pc.monitor \notin CloseLabels
    /\ held = {}
    /\ ~monitor.running
    /\ device.monitor = "EspBootMonitor"
    /\ device.stack = "ExitStack"
    /\ device.esp /= None

\* C17: no lock guards the handle. An operation (write_flash, reset) whose
\* "is not None" check has passed and whose body runs after the monitor
\* thread's close() released the transport or cleared the handle still calls
\* the toolkit with that handle; it does not fail with "Device not connected".
C17_BodyUsesReleasedHandle ==
    [][(/\ pc.caller = "op_body"
        /\ pc'.caller = "idle"
        /\ call.op \in {"write_flash", "reset"}
        /\ (device.esp = None \/ held = {}))
       => /\ result'.op = call.op
          /\ result'.toolkit
          /\ result'.stale = (device.esp = None)
          /\ ~(result'.err = "EspBootError" /\ result'.msg = "Device not connected")]_vars

\* write_flash passed its check, the monitor thread's close() then ran to its
\* end, and the body called the toolkit with the handle that is None
C17_Witness ==
    /\ result.op = "write_flash"
    /\ ~result.closed
    /\ result.stale
    /\ result.toolkit
    /\ device.esp = None
    /\ held = {}
    /\ Len(notes) > 0
    /\ Last(notes) = "disconnect"
    /\ pc.monitor \notin CloseLabels

\* C18: stop() only clears the running flag and does not wait. Once it was
\* called, by the caller or by close() inside the monitor's own disconnect
\* callback, and with no start() after it, the polling loop finishes at most
\* the iteration it is in (at most the one enumeration of that iteration, at
\* most one further notification), begins no further iteration, and the
\* monitor thread eventually terminates.
C18_StopEndsPolling ==
    /\ [][(monitor.running /\ ~monitor'.running)
          => /\ monitor' = [monitor EXCEPT !.running = FALSE]
             /\ pc.monitor \notin CloseLabels => pc'.monitor = pc.monitor]_vars
    /\ [](afterStop.enums <= 1 /\ afterStop.notes <= 1)
    /\ [][(/\ monitor.exists
           /\ ~monitor.running
           /\ pc'.monitor = "enum")
          => pc.monitor = "enum"]_vars
    /\ [][(/\ monitor.exists
           /\ ~monitor.running
           /\ pc.monitor = "enum"
           /\ pc'.monitor /= "enum")
          => afterStop.enums = 0]_vars
    /\ []((monitor.exists /\ ~monitor.running)
          => <>(pc.monitor \in {"dead", "raised"}))

\* after the caller's close() stopped the monitor, the thread finished its
\* iteration with one more notification and ended
C18_Witness ==
    /\ monitor.exists
    /\ ~monitor.running
    /\ afterStop.notes = 1
    /\ afterStop.enums = 1
    /\ pc.monitor \notin CloseLabels

\* C19: when close() of the caller and the close() the monitor thread runs
\* from its disconnect callback execute concurrently on one open controller,
\* both return without raising in every interleaving, the monitor is stopped
\* and the controller ends closed (handle, stack and monitor reference None).
C19_ConcurrentCloseSafe ==
    /\ result.op = "close" => result.kind \in {"none", "ok"}
    /\ pc.monitor /= "raised"
    /\ (/\ result.op = "close"
        /\ result.kind /= "none"
        /\ pc.monitor \notin CloseLabels)
       => /\ ~monitor.running
          /\ device.esp = None
          /\ device.stack = None
          /\ device.monitor = None

\* C20: close() leaves the port identifier as it is, and is_connected()
\* depends on the port and the ports enumerated now, not on the controller
\* being open: with a port set it returns true exactly when that port is
\* enumerated, so a closed controller whose port is still enumerated reports
\* true.
C20_IsConnectedIgnoresClose ==
    /\ [][(\E t \in {"caller", "monitor"} :
               pc[t] \in CloseLabels /\ pc'[t] /= pc[t])
          => device'.port = device.port]_vars
    /\ [][(/\ pc.caller = "idle"
           /\ result'.op = "is_connected"
           /\ device.port /= None
           /\ IsConnected)
          => /\ result'.kind = "ok"
             /\ result'.value =
                  IF \E i \in 1..Len(comports) : comports[i] = device.port
                  THEN "True" ELSE "False"]_vars

\* is_connected() returned true on a controller that was opened and closed
C20_Witness ==
    /\ result.op = "is_connected"
    /\ result.value = "True"
    /\ result.stale
    /\ monitor.exists
    /\ device.esp = None
    /\ device.stack = None
    /\ device.port /= None

====
